---- MODULE Spec2Model ----
(***************************************************************************)
(* Model of src/src/huffman.rs: a static Huffman code built from the       *)
(* character frequencies of a string (HuffmanCode::new), with              *)
(* encode_string and decode_string.                                        *)
(*                                                                         *)
(* A char is a small integer, a String is a sequence of chars, a bitstring *)
(* is a sequence of the one-character strings "0" and "1".  Option<T> is a *)
(* sequence of length 0 (None) or 1 (Some), Box<HNode> is the node itself, *)
(* so a tree is a nested record.  A HashMap is a function on its key set;  *)
(* the order in which a HashMap is iterated is not fixed by the program    *)
(* (std's RandomState), so it is chosen nondeterministically.              *)
(***************************************************************************)
EXTENDS Integers, Sequences, FiniteSets, TLC

VARIABLES text, pc, nodes, a, b, codecs, enc, dec

vars == <<text, pc, nodes, a, b, codecs, enc, dec>>

(* ---------------------------- bounds ----------------------------------- *)
NumSyms   == 3   \* chars of the bounded alphabet: 1..NumSyms
MaxLen    == 3   \* longest training string drawn from the alphabet
MaxText   == 2   \* longest string handed to encode_string (besides data)
MaxBits   == 3   \* longest bitstring handed to decode_string directly
MaxCodecs == 2   \* HuffmanCode values constructed from the same string (SpecTwice)

Alphabet == 1..NumSyms

\* the distribution of the weighted-optimality example: 1,1,2,3,5
FibText == <<1, 2, 3, 3, 4, 4, 4, 5, 5, 5, 5, 5>>

Strings(S, n) == UNION {[1..k -> S] : k \in 0..n}

\* s.chars() as a set
Chars(s) == {s[i] : i \in DOMAIN s}

Inputs == Strings(Alphabet, MaxLen) \cup {FibText}

Bit == {"0", "1"}

(* ---------------------------- Option ----------------------------------- *)
None == <<>>
Some(x) == <<x>>
IsSome(o) == Len(o) = 1
unwrap(o) == o[1]

(* ---------------------------- HNode ------------------------------------ *)
HNode(freq, ch) == [freq |-> freq, ch |-> ch, left |-> None, right |-> None]

(* ---------------------------- freq_map --------------------------------- *)
RECURSIVE freq_map_loop(_, _)
freq_map_loop(s, m) ==
    IF s = <<>> THEN m
    ELSE LET ch == Head(s)
             m2 == IF ch \in DOMAIN m
                   THEN [m EXCEPT ![ch] = @ + 1]
                   ELSE (ch :> 1) @@ m
         IN  freq_map_loop(Tail(s), m2)

freq_map(s) == freq_map_loop(s, <<>>)

\* the orders in which the entries of a HashMap with key set K can be iterated
IterOrders(K) ==
    {p \in [1..Cardinality(K) -> K] :
        \A i, j \in 1..Cardinality(K) : i # j => p[i] # p[j]}

(* ---------------------------- generate_tree ---------------------------- *)
\* the sort left out of the loop
sort_by_omitted(v) == v

\* nodes.sort_by(|a, b| b.freq.cmp(&a.freq)): a stable sort, descending by
\* freq; nodes of equal freq keep their relative order
RECURSIVE sort_by(_)
sort_by(v) ==
    IF Len(v) <= 1 THEN v
    ELSE LET init == sort_by(SubSeq(v, 1, Len(v) - 1))
             x == v[Len(v)]
             k == Cardinality({i \in DOMAIN init : init[i].freq >= x.freq})
         IN  SubSeq(init, 1, k) \o <<x>> \o SubSeq(init, k + 1, Len(init))

\* the merged node with the weight of one child only
merge_one_weight(x, y) ==
    [freq |-> x.freq, ch |-> None, left |-> Some(x), right |-> Some(y)]

\* c = HNode::new(a.freq + b.freq, None); c.left = Some(a); c.right = Some(b)
merge(x, y) ==
    [HNode(x.freq + y.freq, None) EXCEPT !.left = Some(x), !.right = Some(y)]

(* ---------------------------- assign_codes ----------------------------- *)
\* both children get the bit "0"
RECURSIVE assign_codes_same_bit(_, _, _)
assign_codes_same_bit(node, codes, code) ==
    IF IsSome(node.ch)
    THEN (unwrap(node.ch) :> code) @@ codes
    ELSE LET c1 == IF IsSome(node.left)
                   THEN assign_codes_same_bit(unwrap(node.left), codes, code \o <<"0">>)
                   ELSE codes
         IN  IF IsSome(node.right)
             THEN assign_codes_same_bit(unwrap(node.right), c1, code \o <<"0">>)
             ELSE c1

RECURSIVE assign_codes(_, _, _)
assign_codes(node, codes, code) ==
    IF IsSome(node.ch)
    THEN (unwrap(node.ch) :> code) @@ codes
    ELSE LET c1 == IF IsSome(node.left)
                   THEN assign_codes(unwrap(node.left), codes, code \o <<"0">>)
                   ELSE codes
         IN  IF IsSome(node.right)
             THEN assign_codes(unwrap(node.right), c1, code \o <<"1">>)
             ELSE c1

(* ---------------------------- HuffmanCode ------------------------------ *)
\* the outcome of a call: it returns a String, or the thread panics
Returned(v) == [panicked |-> FALSE, ret |-> Some(v)]
Panicked == [panicked |-> TRUE, ret |-> None]

\* a char without a codeword is skipped instead of unwrapped
RECURSIVE encode_loop_skip(_, _, _)
encode_loop_skip(code, s, ret) ==
    IF s = <<>> THEN Returned(ret)
    ELSE IF Head(s) \notin DOMAIN code
         THEN encode_loop_skip(code, Tail(s), ret)
         ELSE encode_loop_skip(code, Tail(s), ret \o code[Head(s)])

\* for ch in s.chars() { token = self.code.get(&ch); ret.push_str(token.unwrap()) }
RECURSIVE encode_loop(_, _, _)
encode_loop(code, s, ret) ==
    IF s = <<>> THEN Returned(ret)
    ELSE IF Head(s) \notin DOMAIN code
         THEN Panicked
         ELSE encode_loop(code, Tail(s), ret \o code[Head(s)])

encode_string(self, s) == encode_loop(self.code, s, <<>>)

\* the walk is not reset to the root after a leaf
RECURSIVE decode_loop_no_reset(_, _, _, _)
decode_loop_no_reset(root, s, node, ret) ==
    IF s = <<>> THEN [ret |-> ret, node |-> node]
    ELSE LET n1 == IF Head(s) = "0"
                   THEN (IF IsSome(node.left) THEN unwrap(node.left) ELSE node)
                   ELSE (IF IsSome(node.right) THEN unwrap(node.right) ELSE node)
         IN  IF IsSome(n1.ch)
             THEN decode_loop_no_reset(root, Tail(s), n1, Append(ret, unwrap(n1.ch)))
             ELSE decode_loop_no_reset(root, Tail(s), n1, ret)

\* the loop of decode_string: the String built so far and the walk's node
RECURSIVE decode_loop(_, _, _, _)
decode_loop(root, s, node, ret) ==
    IF s = <<>> THEN [ret |-> ret, node |-> node]
    ELSE LET n1 == IF Head(s) = "0"
                   THEN (IF IsSome(node.left) THEN unwrap(node.left) ELSE node)
                   ELSE (IF IsSome(node.right) THEN unwrap(node.right) ELSE node)
         IN  IF IsSome(n1.ch)
             THEN decode_loop(root, Tail(s), root, Append(ret, unwrap(n1.ch)))
             ELSE decode_loop(root, Tail(s), n1, ret)

decode_string(self, s) == Returned(decode_loop(self.root, s, self.root, <<>>).ret)

(* ---------------------------- state machine ---------------------------- *)
Init ==
    /\ text \in Inputs
    /\ pc = "idle"
    /\ nodes = <<>>
    /\ a = None
    /\ b = None
    /\ codecs = <<>>
    /\ enc = None
    /\ dec = None

\* HuffmanCode::new(text) is entered: generate_tree builds the node list
\* from the frequency map in the map's iteration order
EnterNew ==
    /\ pc = "idle"
    /\ LET fm == freq_map(text)
       IN  \E order \in IterOrders(DOMAIN fm) :
               nodes' = [i \in 1..Len(order) |-> HNode(fm[order[i]], Some(order[i]))]
    /\ a' = None
    /\ b' = None
    /\ pc' = "loop"
    /\ UNCHANGED <<text, codecs, enc, dec>>

\* let encoder = HuffmanCode::new(text)
New ==
    /\ codecs = <<>>
    /\ EnterNew

\* a further HuffmanCode::new(text) while the earlier values are alive
NewAgain ==
    /\ codecs # <<>>
    /\ Len(codecs) < MaxCodecs
    /\ EnterNew

\* one iteration of `while nodes.len() > 1`
MergeStep ==
    /\ pc = "loop"
    /\ Len(nodes) > 1
    /\ LET sorted == sort_by(nodes)
           n == Len(sorted)
           x == sorted[n]
           y == sorted[n - 1]
       IN  /\ a' = Some(x)
           /\ b' = Some(y)
           /\ nodes' = Append(SubSeq(sorted, 1, n - 2), merge(x, y))
    /\ UNCHANGED <<text, pc, codecs, enc, dec>>

\* the loop is left with one node: generate_tree returns it, new assigns
\* the codes and returns the HuffmanCode
Finish ==
    /\ pc = "loop"
    /\ Len(nodes) = 1
    /\ LET root == nodes[1]
       IN  codecs' = Append(codecs, [data |-> text, root |-> root,
                                     code |-> assign_codes(root, <<>>, <<>>)])
    /\ nodes' = <<>>
    /\ a' = None
    /\ b' = None
    /\ pc' = "idle"
    /\ UNCHANGED <<text, enc, dec>>

\* the loop is left with no node: nodes.pop().unwrap() panics
TreePanic ==
    /\ pc = "loop"
    /\ Len(nodes) = 0
    /\ pc' = "panicked"
    /\ UNCHANGED <<text, nodes, a, b, codecs, enc, dec>>

\* bin_seq = codecs[i].encode_string(s), the first call on the codec
Encode ==
    /\ pc = "idle"
    /\ enc = None
    /\ dec = None
    /\ \E i \in DOMAIN codecs :
       \E s \in Strings(Alphabet \cup Chars(codecs[i].data), MaxText) \cup {codecs[i].data} :
           enc' = Some([self |-> i, s |-> s, out |-> encode_string(codecs[i], s)])
    /\ UNCHANGED <<text, pc, nodes, a, b, codecs, dec>>

\* codecs[i].decode_string(s) on a bitstring of the caller's choice, the
\* first call on the codec
Decode ==
    /\ pc = "idle"
    /\ enc = None
    /\ dec = None
    /\ \E i \in DOMAIN codecs :
       \E s \in Strings(Bit, MaxBits) :
           dec' = Some([self |-> i, s |-> s, out |-> decode_string(codecs[i], s)])
    /\ UNCHANGED <<text, pc, nodes, a, b, codecs, enc>>

\* decode_string on the bitstring the last encode_string returned, by the
\* same codec (test::attempt_compress)
DecodeEncoded ==
    /\ pc = "idle"
    /\ IsSome(enc)
    /\ dec = None
    /\ ~unwrap(enc).out.panicked
    /\ LET e == unwrap(enc)
           bin_seq == unwrap(e.out.ret)
       IN  dec' = Some([self |-> e.self, s |-> bin_seq,
                        out |-> decode_string(codecs[e.self], bin_seq)])
    /\ UNCHANGED <<text, pc, nodes, a, b, codecs, enc>>

Next ==
    \/ New
    \/ MergeStep
    \/ Finish
    \/ TreePanic
    \/ Encode
    \/ Decode
    \/ DecodeEncoded

Spec == Init /\ [][Next]_vars

\* the same string given to HuffmanCode::new more than once
NextTwice ==
    \/ New
    \/ NewAgain
    \/ MergeStep
    \/ Finish
    \/ TreePanic

SpecTwice == Init /\ [][NextTwice]_vars

(* ---------------------------- properties ------------------------------- *)
IsPrefix(p, q) == Len(p) <= Len(q) /\ SubSeq(q, 1, Len(p)) = p

\* both calls are recorded exactly when the bitstring decoded is the one
\* the recorded encode_string call returned
RoundTripped == IsSome(enc) /\ IsSome(dec)

RECURSIVE SumFreq(_)
SumFreq(v) == IF v = <<>> THEN 0 ELSE Head(v).freq + SumFreq(Tail(v))

\* weighted path length: sum over the leaves of freq * depth
RECURSIVE wpl(_, _)
wpl(node, depth) ==
    IF IsSome(node.ch) THEN node.freq * depth
    ELSE wpl(unwrap(node.left), depth + 1) + wpl(unwrap(node.right), depth + 1)

RECURSIVE SumW(_, _)
SumW(fm, S) ==
    IF S = {} THEN 0
    ELSE LET x == CHOOSE y \in S : TRUE IN fm[x] + SumW(fm, S \ {x})

SetMin(S) == CHOOSE x \in S : \A y \in S : x <= y

\* the least weighted path length of a binary tree whose leaves are the
\* symbols of S with weights fm, by enumerating every split of S into the
\* leaves of the left and of the right subtree
RECURSIVE OptWPL(_, _)
OptWPL(fm, S) ==
    IF Cardinality(S) <= 1 THEN 0
    ELSE LET m == SetMin(S)
             splits == {A \in SUBSET S : m \in A /\ A # S}
         IN  SumW(fm, S)
               + SetMin({OptWPL(fm, A) + OptWPL(fm, S \ A) : A \in splits})

\* C1: for every non-empty string s, the codec built by HuffmanCode::new(s)
\* decodes its own encoding of s back to s.
C1_RoundTripOfTrainingText ==
    RoundTripped =>
        LET e == unwrap(enc)
        IN  (e.s = codecs[e.self].data /\ e.s # <<>>)
                => unwrap(dec).out = Returned(e.s)

\* C2: in the code table of every constructed HuffmanCode, the codeword of
\* a symbol is never a prefix of (in particular never equal to) the codeword
\* of a different symbol.
C2_PrefixCode ==
    \A i \in DOMAIN codecs :
        \A x, y \in DOMAIN codecs[i].code :
            x # y => ~IsPrefix(codecs[i].code[x], codecs[i].code[y])

C2_Witness ==
    \E i \in DOMAIN codecs : Cardinality(DOMAIN codecs[i].code) >= 3

\* C3: encode_string on a string with a character that does not occur in
\* the training text fails (the unwrap of the failed lookup panics) wherever
\* the character stands, and returns no encoding.
C3_UnknownSymbolFails ==
    IsSome(enc) =>
        LET e == unwrap(enc)
        IN  ~(Chars(e.s) \subseteq Chars(codecs[e.self].data))
                => (e.out.panicked /\ e.out.ret = None)

C3_Witness ==
    /\ IsSome(enc)
    /\ LET e == unwrap(enc)
       IN  /\ Len(e.s) = 2
           /\ e.s[1] \in Chars(codecs[e.self].data)
           /\ e.s[2] \notin Chars(codecs[e.self].data)
           /\ e.out.panicked

\* C4: decode_string on a bitstring that ends while the walk is at a node
\* other than the root reports an error; it does not return the symbols
\* decoded so far.
C4_MalformedBitstringReported ==
    IsSome(dec) =>
        LET d == unwrap(dec)
            root == codecs[d.self].root
        IN  decode_loop(root, d.s, root, <<>>).node # root
                => ~IsSome(d.out.ret)

\* C5: HuffmanCode::new("") completes without error with an empty code
\* table, and on that codec encode_string("") and decode_string("") return "".
C5_EmptyInput ==
    text = <<>> =>
        /\ pc # "panicked"
        /\ \A i \in DOMAIN codecs : DOMAIN codecs[i].code = {}
        /\ (IsSome(enc) /\ unwrap(enc).s = <<>>) => unwrap(enc).out = Returned(<<>>)
        /\ (IsSome(dec) /\ unwrap(dec).s = <<>>) => unwrap(dec).out = Returned(<<>>)

\* C6: for a training text of one distinct symbol the code table has exactly
\* one entry, its codeword is not empty, and the text round-trips.
C6_SingleSymbol ==
    Cardinality(Chars(text)) = 1 =>
        /\ \A i \in DOMAIN codecs :
              /\ Cardinality(DOMAIN codecs[i].code) = 1
              /\ \A ch \in DOMAIN codecs[i].code : Len(codecs[i].code[ch]) >= 1
        /\ (RoundTripped /\ unwrap(enc).s = text)
              => unwrap(dec).out = Returned(text)

\* C7: two constructions from the same string have the same code table,
\* whatever the iteration order of the frequency map.
C7_Deterministic ==
    \A i, j \in DOMAIN codecs : codecs[i].code = codecs[j].code

\* C8: the tree of every constructed codec has the least weighted path
\* length of all binary trees over its leaves; for the frequencies 1,1,2,3,5
\* it is 25.
C8_WeightedOptimality ==
    \A i \in DOMAIN codecs :
        LET fm == freq_map(codecs[i].data)
            w == wpl(codecs[i].root, 0)
        IN  /\ w = OptWPL(fm, DOMAIN fm)
            /\ codecs[i].data = FibText => w = 25

C8_Witness ==
    \E i \in DOMAIN codecs :
        /\ codecs[i].data = FibText
        /\ wpl(codecs[i].root, 0) = 25

\* C9: after every iteration of the merge loop the two nodes removed weigh
\* no more than any candidate that stayed, the node pushed is an internal
\* node with exactly these two as left and right child and the sum of their
\* weights; the candidates' weights always sum to the input's length, and so
\* does the weight of the final root.
C9_MergeStep ==
    /\ (pc = "loop" /\ IsSome(a)) =>
          LET x == unwrap(a)
              y == unwrap(b)
              c == nodes[Len(nodes)]
          IN  /\ c.ch = None
              /\ c.left = a
              /\ c.right = b
              /\ c.freq = x.freq + y.freq
              /\ \A i \in 1..(Len(nodes) - 1) :
                    x.freq <= nodes[i].freq /\ y.freq <= nodes[i].freq
    /\ pc = "loop" => SumFreq(nodes) = Len(text)
    /\ \A i \in DOMAIN codecs : codecs[i].root.freq = Len(codecs[i].data)

C9_Witness ==
    /\ pc = "loop"
    /\ IsSome(a)
    /\ Len(nodes) >= 3
    /\ \E i \in 1..(Len(nodes) - 1) : nodes[i].freq > unwrap(b).freq

\* C10: a codec trained on a text with at least two distinct symbols
\* encodes every string over the text's symbols (the empty one included)
\* and decodes the encoding back to the string.
C10_RoundTripOverAlphabet ==
    IsSome(enc) =>
        LET e == unwrap(enc)
            data == codecs[e.self].data
        IN  (Cardinality(Chars(data)) >= 2 /\ Chars(e.s) \subseteq Chars(data))
                => /\ ~e.out.panicked
                   /\ IsSome(dec) => unwrap(dec).out = Returned(e.s)

C10_Witness ==
    /\ RoundTripped
    /\ LET e == unwrap(enc)
           data == codecs[e.self].data
       IN  /\ Cardinality(Chars(data)) >= 3
           /\ Len(e.s) = 2
           /\ e.s # data
           /\ unwrap(dec).out = Returned(e.s)

====
